---- MODULE Spec2Model ----
(***************************************************************************)
(* Budget-Shifter: the SimulationChart component in its two versions.      *)
(*   src/components/Charts.tsx  totals and deltas bar charts               *)
(*   src/unnamed/part_000       treemap, stacked and waterfall charts      *)
(* Both take the same props (data, decimalPrecision, and in part_000       *)
(* newInvestment) and recompute every derived structure on each render.    *)
(* The selected view (viewMode, activeView) only picks which of the        *)
(* derived structures is drawn; no computation below reads it, and it is   *)
(* not part of the state here.                                             *)
(*                                                                         *)
(* Amounts are JavaScript numbers.  They are modelled as exact decimal     *)
(* fixed-point numbers: the integer v stands for v / Scale.  Binary        *)
(* floating-point representation error is not modelled.                    *)
(***************************************************************************)
EXTENDS Integers, Sequences, FiniteSets, TLC

VARIABLES data, decimalPrecision, newInvestment,
          aggregatedDataCharts, deltaData, totalData, deltaChartData,
          aggregatedData, treemapData, stackedData, waterfallData

vars == <<data, decimalPrecision, newInvestment,
          aggregatedDataCharts, deltaData, totalData, deltaChartData,
          aggregatedData, treemapData, stackedData, waterfallData>>

(***************************************************************************)
(* Bounds and input sets                                                   *)
(***************************************************************************)
MaxLines == 4

\* fixed-point resolution: three decimal digits
Scale == 10 * 10 * 10

Precisions == {0, 1}
Categories == {"A", "Nieuwe Investering"}
\* <<originalAmount, adjustment>> of a line: 0 and 0; 1.5 and -1.5; 0 and 0.5.
\* At precision 0 the second gives original 2, adjustment -1 and final 0, so
\* that the order by final and the order by adjustment differ.
Amounts == {<<0, 0>>, <<1500, -1500>>, <<0, 500>>}
\* -1, 0 (also the prop left out) and 1.5
Investments == {-1000, 0, 1500}

BudgetLine == {[category |-> c, originalAmount |-> a[1], adjustment |-> a[2]] :
                  c \in Categories, a \in Amounts}

theme == [primary |-> "primary", highRisk |-> "highRisk",
          lowRisk |-> "lowRisk", text |-> "text"]

(***************************************************************************)
(* Helpers                                                                 *)
(***************************************************************************)
RECURSIVE Pow10(_)
\* Math.pow(10, n) for a small non-negative integer n
Pow10(n) == IF n = 0 THEN 1 ELSE 10 * Pow10(n - 1)

\* Math.abs
Abs(x) == IF x < 0 THEN -x ELSE x

\* Math.min, Math.max of two numbers
MathMin(a, b) == IF a < b THEN a ELSE b
MathMax(a, b) == IF a > b THEN a ELSE b

\* Math.round of the rational num / den (den > 0): floor(x + 1/2), so a tie
\* goes to the larger integer.  TLC's \div rounds toward minus infinity.
MathRound(num, den) == (2 * num + den) \div (2 * den)

\* a plausible slip: Math.round replaced by a tie rule that is symmetric
\* about zero (ties away from zero)
roundAwayFromZero(val, p) ==
    LET factor == Pow10(p)
        mag == MathRound(Abs(val) * factor, Scale)
    IN  (IF val < 0 THEN -mag ELSE mag) * (Scale \div factor)

\* round(val) with decimalPrecision = p
round(val, p) ==
    LET factor == Pow10(p)
    IN  MathRound(val * factor, Scale) * (Scale \div factor)

(***************************************************************************)
(* Array.prototype.sort with a comparator (a, b) => key(b) - key(a): a     *)
(* stable sort, largest key first.  keys[i] is the key of s[i].            *)
(***************************************************************************)
\* the place of s[i] in the result: behind every larger key, and behind the
\* equal keys that precede it in s
RankDesc(keys, i) ==
    1 + Cardinality({j \in DOMAIN keys : keys[j] > keys[i]})
      + Cardinality({j \in DOMAIN keys : j < i /\ keys[j] = keys[i]})

SortDesc(s, keys) ==
    [k \in 1..Len(s) |-> s[CHOOSE i \in 1..Len(s) : RankDesc(keys, i) = k]]

finals(s) == [i \in 1..Len(s) |-> s[i].final]
adjustments(s) == [i \in 1..Len(s) |-> s[i].adjustment]

(***************************************************************************)
(* 1. Aggregate data by category: data.reduce(..., [])                     *)
(***************************************************************************)
\* a plausible slip: the row-level rounding of lineFinal is left out
reducerRawLineFinal(acc, curr, p) ==
    LET lineFinal == curr.originalAmount + curr.adjustment
        found == {i \in 1..Len(acc) : acc[i].name = curr.category}
    IN  IF found # {}
        THEN LET e == CHOOSE i \in found : \A j \in found : i <= j
             IN  [acc EXCEPT ![e] =
                    [name |-> acc[e].name,
                     original |-> round(acc[e].original + curr.originalAmount, p),
                     final |-> round(acc[e].final + lineFinal, p),
                     adjustment |-> round(acc[e].adjustment + curr.adjustment, p)]]
        ELSE Append(acc, [name |-> curr.category,
                          original |-> round(curr.originalAmount, p),
                          final |-> lineFinal,
                          adjustment |-> round(curr.adjustment, p)])

\* a plausible slip: the adjustment of a further line of a category is not
\* accumulated
reducerKeepAdjustment(acc, curr, p) ==
    LET lineFinal == round(curr.originalAmount + curr.adjustment, p)
        found == {i \in 1..Len(acc) : acc[i].name = curr.category}
    IN  IF found # {}
        THEN LET e == CHOOSE i \in found : \A j \in found : i <= j
             IN  [acc EXCEPT ![e] =
                    [name |-> acc[e].name,
                     original |-> round(acc[e].original + curr.originalAmount, p),
                     final |-> round(acc[e].final + lineFinal, p),
                     adjustment |-> acc[e].adjustment]]
        ELSE Append(acc, [name |-> curr.category,
                          original |-> round(curr.originalAmount, p),
                          final |-> lineFinal,
                          adjustment |-> round(curr.adjustment, p)])

\* the reducer callback: one line folded into the accumulator
reducer(acc, curr, p) ==
    LET lineFinal == round(curr.originalAmount + curr.adjustment, p)
        found == {i \in 1..Len(acc) : acc[i].name = curr.category}
    IN  IF found # {}
        THEN \* acc.find returns the first match
             LET e == CHOOSE i \in found : \A j \in found : i <= j
             IN  [acc EXCEPT ![e] =
                    [name |-> acc[e].name,
                     original |-> round(acc[e].original + curr.originalAmount, p),
                     final |-> round(acc[e].final + lineFinal, p),
                     adjustment |-> round(acc[e].adjustment + curr.adjustment, p)]]
        ELSE Append(acc, [name |-> curr.category,
                          original |-> round(curr.originalAmount, p),
                          final |-> lineFinal,
                          adjustment |-> round(curr.adjustment, p)])

RECURSIVE aggregate(_, _)
\* data.reduce(reducer, []): left to right
aggregate(lines, p) ==
    IF lines = <<>> THEN <<>>
    ELSE reducer(aggregate(SubSeq(lines, 1, Len(lines) - 1), p), lines[Len(lines)], p)

(***************************************************************************)
(* Charts.tsx: totals and deltas                                           *)
(***************************************************************************)
\* a plausible slip: only the increases are kept
isPositiveShift(d) == d.adjustment > 0

isActiveShift(d) == Abs(d.adjustment) > 0

deltaDataOf(agg) ==
    LET kept == SelectSeq(agg, isActiveShift)
    IN  SortDesc(kept, adjustments(kept))

totalDataOf(agg) == SortDesc(agg, finals(agg))

\* the data prop of the deltas BarChart
deltaChartDataOf(delta) ==
    IF Len(delta) > 0 THEN delta
    ELSE <<[name |-> "Geen wijzigingen", adjustment |-> 0]>>

(***************************************************************************)
(* part_000: aggregated data with the synthetic investment, sorted         *)
(***************************************************************************)
\* a plausible slip: the test newInvestment > 0 is left out, a truthy
\* newInvestment is enough
withInvestmentTruthy(agg, inv, p) ==
    IF inv # 0
    THEN Append(agg, [name |-> "Nieuwe Investering",
                      original |-> 0,
                      final |-> round(inv, p),
                      adjustment |-> round(inv, p)])
    ELSE agg

withInvestment(agg, inv, p) ==
    IF inv # 0 /\ inv > 0
    THEN Append(agg, [name |-> "Nieuwe Investering",
                      original |-> 0,
                      final |-> round(inv, p),
                      adjustment |-> round(inv, p)])
    ELSE agg

aggregatedDataOf(lines, p, inv) ==
    LET pushed == withInvestment(aggregate(lines, p), inv, p)
    IN  SortDesc(pushed, finals(pushed))

\* a plausible slip: >= for >, so that only the negative finals are dropped
hasNonNegativeFinal(d) == d.final >= 0

hasPositiveFinal(d) == d.final > 0

treemapDataOf(agg) ==
    LET kept == SelectSeq(agg, hasPositiveFinal)
    IN  [i \in 1..Len(kept) |->
            [name |-> kept[i].name, original |-> kept[i].original,
             final |-> kept[i].final, adjustment |-> kept[i].adjustment,
             size |-> kept[i].final]]

(***************************************************************************)
(* B. Stacked bar data: two objects keyed by category name                 *)
(***************************************************************************)
\* obj[key] = value on a JavaScript object: a new key is added, an existing
\* one is overwritten
SetKey(obj, key, value) == (key :> value) @@ obj

\* the forEach callback: bars = <<originalBar, finalBar>>
stackedItem(bars, item) ==
    <<IF item.original > 0 THEN SetKey(bars[1], item.name, item.original) ELSE bars[1],
      IF item.final > 0 THEN SetKey(bars[2], item.name, item.final) ELSE bars[2]>>

RECURSIVE stackedForEach(_, _)
stackedForEach(bars, agg) ==
    IF agg = <<>> THEN bars
    ELSE stackedItem(stackedForEach(bars, SubSeq(agg, 1, Len(agg) - 1)), agg[Len(agg)])

getStackedData(agg) ==
    stackedForEach(<<[name |-> "Origineel Budget"], [name |-> "Nieuw Budget"]>>, agg)

(***************************************************************************)
(* C. Waterfall data: Start -> Steps -> End                                *)
(***************************************************************************)
RECURSIVE sumOriginal(_)
\* aggregatedData.reduce((acc, cur) => acc + cur.original, 0)
sumOriginal(agg) ==
    IF agg = <<>> THEN 0
    ELSE sumOriginal(SubSeq(agg, 1, Len(agg) - 1)) + agg[Len(agg)].original

isStep(d) == d.adjustment # 0

\* a plausible slip: the running total is not advanced by the step
waterfallStepStale(st, step, p) ==
    LET prevTotal == st.runningTotal
        next == round(prevTotal + step.adjustment, p)
    IN  [runningTotal |-> prevTotal,
         points |-> Append(st.points,
            [name |-> step.name,
             range |-> <<MathMin(prevTotal, next), MathMax(prevTotal, next)>>,
             adjustment |-> step.adjustment,
             type |-> "step",
             fill |-> theme.text])]

\* the steps.forEach callback: st = [runningTotal, points]
waterfallStep(st, step, p) ==
    LET prevTotal == st.runningTotal
        next == round(prevTotal + step.adjustment, p)
        fillColor == IF step.name = "Nieuwe Investering" THEN theme.text
                     ELSE IF step.adjustment > 0 THEN theme.highRisk
                     ELSE theme.lowRisk
    IN  [runningTotal |-> next,
         points |-> Append(st.points,
            [name |-> step.name,
             range |-> <<MathMin(prevTotal, next), MathMax(prevTotal, next)>>,
             adjustment |-> step.adjustment,
             type |-> "step",
             fill |-> fillColor])]

RECURSIVE waterfallForEach(_, _, _)
waterfallForEach(st, steps, p) ==
    IF steps = <<>> THEN st
    ELSE waterfallStep(waterfallForEach(st, SubSeq(steps, 1, Len(steps) - 1), p),
                       steps[Len(steps)], p)

\* a plausible slip: the sort of the steps is left out
waterfallStepsUnsorted(agg) == SelectSeq(agg, isStep)

\* the steps of the waterfall, in the order they are processed
waterfallSteps(agg) ==
    LET kept == SelectSeq(agg, isStep)
    IN  SortDesc(kept, adjustments(kept))

\* a plausible slip: the closing total is not pushed
getWaterfallDataNoEnd(agg, p) ==
    LET totalOriginal == round(sumOriginal(agg), p)
        start == [name |-> "Start (Origineel)", uv |-> totalOriginal,
                  type |-> "total", fill |-> "#94a3b8"]
    IN  waterfallForEach([runningTotal |-> totalOriginal, points |-> <<start>>],
                         waterfallSteps(agg), p).points

getWaterfallData(agg, p) ==
    LET totalOriginal == round(sumOriginal(agg), p)
        start == [name |-> "Start (Origineel)", uv |-> totalOriginal,
                  type |-> "total", fill |-> "#94a3b8"]
        done == waterfallForEach([runningTotal |-> totalOriginal, points |-> <<start>>],
                                 waterfallSteps(agg), p)
    IN  Append(done.points,
               [name |-> "Eind (Nieuw)", uv |-> done.runningTotal,
                type |-> "total", fill |-> theme.primary])

(***************************************************************************)
(* The component: one render pass, and the actions that cause one          *)
(***************************************************************************)
\* the body of SimulationChart, in both files, for the props (d, p, inv)
Render(d, p, inv) ==
    LET aggC == aggregate(d, p)
        delta == deltaDataOf(aggC)
        agg == aggregatedDataOf(d, p, inv)
    IN  /\ aggregatedDataCharts' = aggC
        /\ deltaData' = delta
        /\ totalData' = totalDataOf(aggC)
        /\ deltaChartData' = deltaChartDataOf(delta)
        /\ aggregatedData' = agg
        /\ treemapData' = treemapDataOf(agg)
        /\ stackedData' = getStackedData(agg)
        /\ waterfallData' = getWaterfallData(agg, p)

Init ==
    /\ data = <<>>
    /\ decimalPrecision \in Precisions
    /\ newInvestment = 0
    /\ aggregatedDataCharts = <<>>
    /\ deltaData = <<>>
    /\ totalData = <<>>
    /\ deltaChartData = deltaChartDataOf(<<>>)
    /\ aggregatedData = <<>>
    /\ treemapData = <<>>
    /\ stackedData = getStackedData(<<>>)
    /\ waterfallData = getWaterfallData(<<>>, decimalPrecision)

\* the parent passes a data array with one more budget line
PropsData(line) ==
    /\ Len(data) < MaxLines
    /\ data' = Append(data, line)
    /\ UNCHANGED <<decimalPrecision, newInvestment>>
    /\ Render(data', decimalPrecision, newInvestment)

\* the parent passes another decimalPrecision
PropsPrecision(p) ==
    /\ p # decimalPrecision
    /\ decimalPrecision' = p
    /\ UNCHANGED <<data, newInvestment>>
    /\ Render(data, p, newInvestment)

\* the parent passes another newInvestment (0 when the prop is absent)
PropsInvestment(inv) ==
    /\ inv # newInvestment
    /\ newInvestment' = inv
    /\ UNCHANGED <<data, decimalPrecision>>
    /\ Render(data, decimalPrecision, inv)

Next ==
    \/ \E line \in BudgetLine : PropsData(line)
    \/ \E p \in Precisions : PropsPrecision(p)
    \/ \E inv \in Investments : PropsInvestment(inv)

Spec == Init /\ [][Next]_vars

(***************************************************************************)
(* Vocabulary of the properties                                            *)
(***************************************************************************)
\* one unit of the rounding precision, 10^-p
UnitOf(p) == Scale \div Pow10(p)

IsMultiple(x, u) == x % u = 0

Indices(s) == 1..Len(s)

RECURSIVE SumUpTo(_, _)
\* f[1] + ... + f[n]
SumUpTo(f, n) == IF n = 0 THEN 0 ELSE SumUpTo(f, n - 1) + f[n]

SumSeq(f) == SumUpTo(f, Len(f))

\* the one-to-one maps of 1..n onto itself
Perms(n) == {f \in [1..n -> 1..n] : \A i, j \in 1..n : f[i] = f[j] => i = j}

IsPermutationOf(s, t) ==
    /\ Len(s) = Len(t)
    /\ \E f \in Perms(Len(s)) : \A i \in Indices(s) : s[i] = t[f[i]]

NonIncreasing(keys) ==
    \A i, j \in DOMAIN keys : i < j => keys[i] >= keys[j]

LinesOf(lines, c) == SelectSeq(lines, LAMBDA l : l.category = c)

CategoriesOf(lines) == {lines[i].category : i \in Indices(lines)}

FirstSeen(lines, c) ==
    CHOOSE i \in Indices(lines) :
        /\ lines[i].category = c
        /\ \A j \in Indices(lines) : lines[j].category = c => i <= j

RECURSIVE FoldOf(_, _)
\* the left fold of the statement: every sum rounded after the addition
FoldOf(ls, p) ==
    IF ls = <<>> THEN [original |-> 0, final |-> 0, adjustment |-> 0]
    ELSE LET prev == FoldOf(SubSeq(ls, 1, Len(ls) - 1), p)
             l == ls[Len(ls)]
         IN  [original |-> round(prev.original + l.originalAmount, p),
              final |-> round(prev.final + round(l.originalAmount + l.adjustment, p), p),
              adjustment |-> round(prev.adjustment + l.adjustment, p)]

\* summary s holds the fold of the lines of category s.name
IsFoldOfItsLines(s, lines, p) ==
    LET f == FoldOf(LinesOf(lines, s.name), p)
    IN  s.original = f.original /\ s.final = f.final /\ s.adjustment = f.adjustment

\* agg is one summary per category of lines, in first-seen order, each the fold
FoldedInFirstSeenOrder(agg, lines, p) ==
    /\ Len(agg) = Cardinality(CategoriesOf(lines))
    /\ \A k \in Indices(agg) :
          /\ agg[k].name \in CategoriesOf(lines)
          /\ k = 1 + Cardinality({c \in CategoriesOf(lines) :
                       FirstSeen(lines, c) < FirstSeen(lines, agg[k].name)})
          /\ IsFoldOfItsLines(agg[k], lines, p)

\* the synthetic summary of part_000, present when the investment is > 0
SyntheticOf(inv, p) ==
    IF inv > 0
    THEN <<[name |-> "Nieuwe Investering", original |-> 0,
            final |-> round(inv, p), adjustment |-> round(inv, p)]>>
    ELSE <<>>

ExampleLines ==
    <<[category |-> "A", originalAmount |-> 100 * Scale, adjustment |-> 10 * Scale],
      [category |-> "A", originalAmount |-> 50 * Scale, adjustment |-> (-5) * Scale],
      [category |-> "B", originalAmount |-> 200 * Scale, adjustment |-> 0]>>

ExampleA == [name |-> "A", original |-> 150 * Scale, final |-> 155 * Scale,
             adjustment |-> 5 * Scale]
ExampleB == [name |-> "B", original |-> 200 * Scale, final |-> 200 * Scale,
             adjustment |-> 0]

(***************************************************************************)
(* C1  aggregation is a per-category left fold                             *)
(***************************************************************************)
\* C1 as stated: in both files the aggregated list holds one summary per
\* distinct category, in first-seen order, each the rounded left fold of its
\* lines (part_000 taken without an investment).
C1_FirstSeenOrderEverywhere ==
    /\ FoldedInFirstSeenOrder(aggregatedDataCharts, data, decimalPrecision)
    /\ newInvestment <= 0 =>
          FoldedInFirstSeenOrder(aggregatedData, data, decimalPrecision)

\* C1 amended: Charts.tsx holds one summary per distinct category in
\* first-seen order, each the rounded left fold of its lines; part_000 holds
\* the same summaries (and the synthetic one when an investment > 0 is given)
\* reordered non-increasing by final.  The example of the statement gives A
\* and B as stated, B before A in part_000.
C1_FoldPerCategory ==
    /\ FoldedInFirstSeenOrder(aggregatedDataCharts, data, decimalPrecision)
    /\ IsPermutationOf(aggregatedData,
          aggregatedDataCharts \o SyntheticOf(newInvestment, decimalPrecision))
    /\ NonIncreasing(finals(aggregatedData))
    /\ aggregate(ExampleLines, 2) = <<ExampleA, ExampleB>>
    /\ aggregatedDataOf(ExampleLines, 2, 0) = <<ExampleB, ExampleA>>

\* two categories, one of them with several lines, and part_000's order
\* differs from the first-seen order
C1_Witness ==
    /\ Len(data) >= 3
    /\ Len(aggregatedDataCharts) = 2
    /\ newInvestment = 0
    /\ aggregatedData # aggregatedDataCharts

(***************************************************************************)
(* C2  one summary per name                                                *)
(***************************************************************************)
NamesDistinct(agg) ==
    \A i, j \in Indices(agg) : agg[i].name = agg[j].name => i = j

\* C2 as stated: no two summaries of an aggregated list have the same name,
\* also when the synthetic 'Nieuwe Investering' summary is appended while a
\* line already uses that category.
C2_NamesDistinct ==
    /\ NamesDistinct(aggregatedDataCharts)
    /\ NamesDistinct(aggregatedData)

(***************************************************************************)
(* C3  final - original against adjustment                                 *)
(***************************************************************************)
Drift(s) == Abs(s.final - s.original - s.adjustment)

\* C3 as stated: for every summary, |final - original - adjustment| is at
\* most one unit of the rounding precision.
C3_DriftWithinOneUnit ==
    /\ \A i \in Indices(aggregatedDataCharts) :
          Drift(aggregatedDataCharts[i]) <= UnitOf(decimalPrecision)
    /\ \A i \in Indices(aggregatedData) :
          Drift(aggregatedData[i]) <= UnitOf(decimalPrecision)

AmountsAreMultiples(lines, u) ==
    \A i \in Indices(lines) :
        IsMultiple(lines[i].originalAmount, u) /\ IsMultiple(lines[i].adjustment, u)

DriftBounded(s, lines, p) ==
    /\ Drift(s) <= Len(LinesOf(lines, s.name)) * UnitOf(p)
    /\ AmountsAreMultiples(LinesOf(lines, s.name), UnitOf(p)) => Drift(s) = 0

\* C3 amended: for every summary, |final - original - adjustment| is at most
\* one unit of the rounding precision per line of its category, and it is 0
\* when every amount of the category is a multiple of that unit.
C3_DriftWithinOneUnitPerLine ==
    /\ \A i \in Indices(aggregatedDataCharts) :
          DriftBounded(aggregatedDataCharts[i], data, decimalPrecision)
    /\ \A i \in Indices(aggregatedData) :
          DriftBounded(aggregatedData[i], data, decimalPrecision)

\* a category of two lines whose summary is off by two units
C3_Witness ==
    \E i \in Indices(aggregatedDataCharts) :
        /\ Len(LinesOf(data, aggregatedDataCharts[i].name)) = 2
        /\ Drift(aggregatedDataCharts[i]) = 2 * UnitOf(decimalPrecision)

(***************************************************************************)
(* C4  the sum of final against the rounded grand total                    *)
(***************************************************************************)
SumFinal(agg) == SumSeq(finals(agg))

\* round(sum of originalAmount + sum of adjustment) over the lines
RoundedGrandTotal(lines, p) ==
    round(SumSeq([i \in Indices(lines) |-> lines[i].originalAmount])
          + SumSeq([i \in Indices(lines) |-> lines[i].adjustment]), p)

\* the sum over the lines of round(originalAmount + adjustment)
SumOfRoundedLines(lines, p) ==
    SumSeq([i \in Indices(lines) |->
               round(lines[i].originalAmount + lines[i].adjustment, p)])

\* C4 as stated: the sum of final over the summaries derived from the lines
\* is within one unit of round(sum of originalAmount + sum of adjustment).
C4_SumFinalWithinOneUnit ==
    /\ Abs(SumFinal(aggregatedDataCharts) - RoundedGrandTotal(data, decimalPrecision))
          <= UnitOf(decimalPrecision)
    /\ newInvestment <= 0 =>
          Abs(SumFinal(aggregatedData) - RoundedGrandTotal(data, decimalPrecision))
             <= UnitOf(decimalPrecision)

\* C4 amended: the sum of final is the sum over the lines of
\* round(originalAmount + adjustment), plus round(newInvestment) in part_000
\* when an investment > 0 is given; the line part equals
\* round(sum of originalAmount + sum of adjustment) when every amount is a
\* multiple of the unit, and differs from it by less than (n + 1) / 2 units
\* for n lines otherwise.
C4_SumFinalIsSumOfRoundedLines ==
    LET p == decimalPrecision
        lineSum == SumOfRoundedLines(data, p)
    IN  /\ SumFinal(aggregatedDataCharts) = lineSum
        /\ SumFinal(aggregatedData) = lineSum + SumFinal(SyntheticOf(newInvestment, p))
        /\ 2 * Abs(lineSum - RoundedGrandTotal(data, p)) < (Len(data) + 1) * UnitOf(p)
        /\ AmountsAreMultiples(data, UnitOf(p)) => lineSum = RoundedGrandTotal(data, p)

\* four lines, no investment, and the sum of final two units off
C4_Witness ==
    /\ Len(data) = 4
    /\ newInvestment = 0
    /\ Abs(SumFinal(aggregatedData) - RoundedGrandTotal(data, decimalPrecision))
          = 2 * UnitOf(decimalPrecision)

(***************************************************************************)
(* C5  aggregation does not depend on the order of the lines               *)
(***************************************************************************)
Swap(s, i, j) == [s EXCEPT ![i] = s[j], ![j] = s[i]]

RoundArgs ==
    {data[i].originalAmount : i \in Indices(data)}
    \cup {data[i].adjustment : i \in Indices(data)}
    \cup {data[i].originalAmount + data[i].adjustment : i \in Indices(data)}
    \cup {newInvestment}

\* r is a multiple of the unit u nearest to v
IsNearest(r, v, u) == IsMultiple(r, u) /\ 2 * Abs(r - v) <= u

IsTie(r, v, u) == 2 * Abs(r - v) = u

\* C6 as stated: round(x, p) is the nearest multiple of 10^-p, and a tie is
\* rounded away from zero for positive and negative x.
C6_TiesAwayFromZero ==
    \A v \in RoundArgs :
        LET r == round(v, decimalPrecision)
            u == UnitOf(decimalPrecision)
        IN  /\ IsNearest(r, v, u)
            /\ IsTie(r, v, u) => Abs(r) > Abs(v)

\* C6 amended: round(x, p) is the nearest multiple of 10^-p, and a tie is
\* rounded toward plus infinity: at precision 0, 0.5 rounds to 1, -0.5 to 0,
\* -1.5 to -1 and -2.5 to -2.
C6_TiesTowardPlusInfinity ==
    /\ \A v \in RoundArgs :
          LET r == round(v, decimalPrecision)
              u == UnitOf(decimalPrecision)
          IN  /\ IsNearest(r, v, u)
              /\ IsTie(r, v, u) => r > v
    /\ round(500, 0) = 1000
    /\ round(-500, 0) = 0
    /\ round(-1500, 0) = -1000
    /\ round(-2500, 0) = -2000

\* a negative tie has been rounded: a category of the single line with
\* adjustment -1.5 at precision 0, summarised with adjustment -1
C6_Witness ==
    /\ decimalPrecision = 0
    /\ \E i \in Indices(aggregatedDataCharts) :
          LET ls == LinesOf(data, aggregatedDataCharts[i].name)
          IN  /\ Len(ls) = 1
              /\ ls[1].adjustment = -1500
              /\ aggregatedDataCharts[i].adjustment = -1000

AfterStep(pt) == IF pt.adjustment > 0 THEN pt.range[2] ELSE pt.range[1]

\* C8: the waterfall starts with a Total and ends with a Total, every point
\* between them is a Step, so there are at least two points; the last Total
\* is the running total after the last step (the first Total when there is
\* no step), and the first Total is round(sum of summary.original).
C8_WaterfallShape ==
    LET w == waterfallData
        n == Len(waterfallData)
    IN  /\ n >= 2
        /\ w[1].type = "total"
        /\ w[n].type = "total"
        /\ \A k \in 2..(n - 1) : w[k].type = "step"
        /\ w[n].uv = IF n = 2 THEN w[1].uv ELSE AfterStep(w[n - 1])
        /\ w[1].uv = round(SumSeq([i \in Indices(aggregatedData) |->
                                      aggregatedData[i].original]),
                           decimalPrecision)

\* a waterfall with an increase and a decrease between two different totals
C8_Witness ==
    /\ Len(waterfallData) = 4
    /\ waterfallData[2].adjustment > 0
    /\ waterfallData[3].adjustment < 0
    /\ waterfallData[1].uv # waterfallData[4].uv

(***************************************************************************)
(* C9  the end total of the waterfall                                      *)
(***************************************************************************)
\* C9: the last Total is the first Total plus the sum of all adjustments of
\* the summaries, and processing the non-zero adjustments in any order, the
\* running total rounded after every step, ends at the same value.
C9_EndTotal ==
    LET w == waterfallData
        n == Len(waterfallData)
        steps == SelectSeq(aggregatedData, isStep)
    IN  /\ w[n].uv = w[1].uv + SumSeq(adjustments(aggregatedData))
        /\ \A f \in Perms(Len(steps)) :
              waterfallForEach([runningTotal |-> w[1].uv, points |-> <<>>],
                               [k \in Indices(steps) |-> steps[f[k]]],
                               decimalPrecision).runningTotal = w[n].uv

\* three steps, of both signs, between two different totals
C9_Witness ==
    /\ Len(waterfallData) = 5
    /\ waterfallData[2].adjustment > 0
    /\ waterfallData[4].adjustment < 0
    /\ waterfallData[1].uv # waterfallData[5].uv

(***************************************************************************)
(* C10  the stacked rows                                                   *)
(***************************************************************************)
CategoryKeys(row) == DOMAIN row \ {"name"}

\* C10 as stated: two rows, 'Origineel Budget' and 'Nieuw Budget'; the first
\* has a key for a summary's name exactly when that summary's original > 0,
\* holding that value, the second likewise for final; no key holds a value
\* <= 0.
C10_StackedRows ==
    /\ Len(stackedData) = 2
    /\ stackedData[1]["name"] = "Origineel Budget"
    /\ stackedData[2]["name"] = "Nieuw Budget"
    /\ \A i \in Indices(aggregatedData) :
          LET s == aggregatedData[i]
          IN  /\ s.name \in CategoryKeys(stackedData[1]) <=> s.original > 0
              /\ s.original > 0 => stackedData[1][s.name] = s.original
              /\ s.name \in CategoryKeys(stackedData[2]) <=> s.final > 0
              /\ s.final > 0 => stackedData[2][s.name] = s.final
    /\ \A r \in 1..2 : \A k \in CategoryKeys(stackedData[r]) : stackedData[r][k] > 0

\* C10 where it holds: the statement is true of every render whose
\* aggregated list has no two summaries of one name (see C2).
C10_StackedRowsOfDistinctNames ==
    NamesDistinct(aggregatedData) => C10_StackedRows

(***************************************************************************)
(* C11  empty and all-zero inputs                                          *)
(***************************************************************************)
AllZero(lines) ==
    \A i \in Indices(lines) :
        lines[i].originalAmount = 0 /\ lines[i].adjustment = 0

NoFinalAtMostZero(tree) == \A k \in Indices(tree) : tree[k].final > 0

NoCategoryKeys(rows) == \A r \in Indices(rows) : CategoryKeys(rows[r]) = {}

\* C11 as stated: for an empty line list and for a line list of zero amounts
\* only (no investment given), the aggregated summaries, the delta view, the
\* treemap data, the waterfall points and the category keys of the stacked
\* rows are all empty; the treemap data never holds a final <= 0.
C11_AllEmpty ==
    /\ (AllZero(data) /\ newInvestment <= 0) =>
          /\ aggregatedDataCharts = <<>>
          /\ aggregatedData = <<>>
          /\ deltaData = <<>>
          /\ treemapData = <<>>
          /\ waterfallData = <<>>
          /\ NoCategoryKeys(stackedData)
    /\ NoFinalAtMostZero(treemapData)

IsTotalOf(pt, label, value) ==
    pt.name = label /\ pt.type = "total" /\ pt.uv = value

\* C11 amended: for an empty line list and for a line list of zero amounts
\* only (no investment given), the delta view, the treemap data and the
\* category keys of the stacked rows are empty, while the waterfall is the
\* two Total points 'Start (Origineel)' and 'Eind (Nieuw)', both 0, and the
\* aggregated summaries are one all-zero summary per category of the lines
\* (none for the empty list); the treemap data never holds a final <= 0.
C11_EmptyExceptTotalsAndZeroSummaries ==
    /\ (AllZero(data) /\ newInvestment <= 0) =>
          /\ deltaData = <<>>
          /\ treemapData = <<>>
          /\ NoCategoryKeys(stackedData)
          /\ Len(waterfallData) = 2
          /\ IsTotalOf(waterfallData[1], "Start (Origineel)", 0)
          /\ IsTotalOf(waterfallData[2], "Eind (Nieuw)", 0)
          /\ Len(aggregatedDataCharts) = Cardinality(CategoriesOf(data))
          /\ Len(aggregatedData) = Cardinality(CategoriesOf(data))
          /\ \A i \in Indices(aggregatedData) :
                /\ aggregatedData[i].original = 0
                /\ aggregatedData[i].final = 0
                /\ aggregatedData[i].adjustment = 0
          /\ data = <<>> => aggregatedData = <<>> /\ aggregatedDataCharts = <<>>
    /\ NoFinalAtMostZero(treemapData)

\* lines of zero amounts in both categories: two all-zero summaries, none of
\* them in the treemap
C11_Witness ==
    /\ data # <<>>
    /\ AllZero(data)
    /\ newInvestment <= 0
    /\ Len(aggregatedData) = 2
    /\ treemapData = <<>>

(***************************************************************************)
(* C12  the synthetic investment summary                                   *)
(***************************************************************************)
\* C12: part_000's summaries are those derived from the lines, and one more,
\* named 'Nieuwe Investering' with original 0 and final = adjustment =
\* round(newInvestment), exactly when newInvestment > 0; for a newInvestment
\* that is absent, 0 or negative they are those derived from the lines alone.
C12_SyntheticIffPositive ==
    LET rounded == round(newInvestment, decimalPrecision)
        synthetic == [name |-> "Nieuwe Investering", original |-> 0,
                      final |-> rounded, adjustment |-> rounded]
    IN  IF newInvestment > 0
        THEN IsPermutationOf(aggregatedData, Append(aggregatedDataCharts, synthetic))
        ELSE IsPermutationOf(aggregatedData, aggregatedDataCharts)

\* an investment of 1.5 at precision 0, next to summaries of both categories:
\* the synthetic summary holds 2
C12_Witness ==
    /\ newInvestment = 1500
    /\ decimalPrecision = 0
    /\ Len(aggregatedDataCharts) = 2
    /\ Len(aggregatedData) = 3
    /\ \E i \in Indices(aggregatedData) :
          /\ aggregatedData[i].name = "Nieuwe Investering"
          /\ aggregatedData[i].original = 0
          /\ aggregatedData[i].final = 2000
          /\ aggregatedData[i].adjustment = 2000

(***************************************************************************)
(* C13  the steps of the waterfall                                         *)
(***************************************************************************)
\* the points between the two totals
StepPoints(w) == SubSeq(w, 2, Len(w) - 1)

NameAndAdjustment(s) == [i \in Indices(s) |-> <<s[i].name, s[i].adjustment>>]

\* the running total before point k of the waterfall w (k >= 2)
BeforePoint(w, k) == IF k = 2 THEN w[1].uv ELSE AfterStep(w[k - 1])

\* C13: the waterfall has one Step per summary with adjustment # 0 and none
\* for a summary with adjustment 0, in non-increasing order of adjustment;
\* with prev the running total before a step (the first Total for the first
\* step, what the previous step left otherwise) and new = round(prev +
\* adjustment), its range is <<min(prev, new), max(prev, new)>>, and
\* rangeMax - rangeMin = |adjustment|.
C13_WaterfallSteps ==
    LET w == waterfallData
        steps == StepPoints(waterfallData)
    IN  /\ IsPermutationOf(NameAndAdjustment(steps),
                           NameAndAdjustment(SelectSeq(aggregatedData,
                                                LAMBDA s : s.adjustment # 0)))
        /\ \A k \in Indices(steps) : steps[k].adjustment # 0
        /\ NonIncreasing(adjustments(steps))
        /\ \A k \in 2..(Len(w) - 1) :
              LET prev == BeforePoint(w, k)
                  new == round(prev + w[k].adjustment, decimalPrecision)
              IN  /\ w[k].type = "step"
                  /\ w[k].range[1] = MathMin(prev, new)
                  /\ w[k].range[2] = MathMax(prev, new)
                  /\ w[k].range[2] - w[k].range[1] = Abs(w[k].adjustment)

\* three summaries, one of them without adjustment: an increase followed by
\* a decrease, the decrease starting where the increase ended
C13_Witness ==
    /\ Len(aggregatedData) = 3
    /\ Len(waterfallData) = 4
    /\ waterfallData[2].adjustment > 0
    /\ waterfallData[3].adjustment < 0
    /\ waterfallData[3].range[2] = waterfallData[2].range[2]
    /\ waterfallData[2].range[1] = waterfallData[1].uv

(***************************************************************************)
(* C14  the views agree on the new total                                   *)
(***************************************************************************)
\* C14 as stated: the last Total of the waterfall ('Eind (Nieuw)') is the sum
\* of final over all summaries, also for amounts finer than the precision.
C14_ViewsAgreeOnNewTotal ==
    waterfallData[Len(waterfallData)].uv = SumFinal(aggregatedData)

\* C14 where it holds: when every amount of the lines is a multiple of the
\* rounding unit.
C14_ViewsAgreeOnMultiples ==
    AmountsAreMultiples(data, UnitOf(decimalPrecision)) => C14_ViewsAgreeOnNewTotal

====
